---- MODULE Spec2Model ----
(***************************************************************************)
(* cargo-testdox: the parser of `cargo test` output (src/src/lib.rs) and   *)
(* the command-line program (src/src/main.rs).                             *)
(*                                                                         *)
(* A Rust string is modelled as a sequence of characters, each character a *)
(* one-element TLA+ string.  The two non-ASCII characters of the program   *)
(* are written by their code points: "U+2714" is the check mark and        *)
(* "U+2013" the en dash.  An ANSI escape sequence of the `colored` crate   *)
(* is one element of the sequence, "ESC[...m".                             *)
(***************************************************************************)
EXTENDS Integers, Sequences, FiniteSets

VARIABLES
    pc,         \* position of the run: "start", then one value per operation applied
    ident,      \* prettify: the identifier given to prettify
    pretty,     \* prettify: prettify(ident)
    again,      \* prettify: prettify(pretty)
    line,       \* parse_line: the line given to parse_line
    result,     \* parse_line: the Option<TestResult> returned
    text,       \* parse_test_results / main: the captured standard output
    results,    \* parse_test_results: the Vec<TestResult> returned
    colour,     \* whether the `colored` crate emits escape sequences
    rendered,   \* Display: the rendered results, one string per result
    printed,    \* main: the lines written to standard output
    exit_code   \* main: the exit status of the process, -1 while running

vars == <<pc, ident, pretty, again, line, result, text, results, colour,
          rendered, printed, exit_code>>

----------------------------------------------------------------------------
(* Bounds of the model.                                                    *)

\* number of tokens an identifier given to prettify is built from
MaxIdTokens == 4
\* number of "::"-separated module segments before the test name
MaxSegs == 3
\* number of tokens the body of a line given to parse_line is built from
MaxBodyTokens == 3
\* number of lines of a captured output
MaxLines == 3

----------------------------------------------------------------------------
(* Literals of the program.                                                *)

TEST_PREFIX == <<"t", "e", "s", "t", " ">>
RESULT == <<"r", "e", "s", "u", "l", "t">>
LINE_MARK == <<"(", "l", "i", "n", "e", " ">>
SEP == <<" ", ".", ".", ".", " ">>
PATH_SEP == <<":", ":">>
FN_MARK == <<"_", "f", "n", "_">>
OK == <<"o", "k">>
FAILED == <<"F", "A", "I", "L", "E", "D">>
IGNORED == <<"i", "g", "n", "o", "r", "e", "d">>
TESTS == <<"t", "e", "s", "t", "s">>
TEST == <<"t", "e", "s", "t">>
TESTS_PREFIX == <<"t", "e", "s", "t", "s", ":", ":">>
DASH == <<" ", "U+2013", " ">>
SPACE == <<" ">>

\* Option::None; Some(v) is the record [some |-> v]
None == [none |-> TRUE]
Some(v) == [some |-> v]
IsSome(o) == o # None

----------------------------------------------------------------------------
(* The operations of str and Vec the program uses.                         *)

\* char::is_whitespace, on the characters of the model
IsWhitespace(c) == c \in {" ", "\t", "\n", "\r"}

\* str::starts_with
StartsWith(s, p) == Len(s) >= Len(p) /\ SubSeq(s, 1, Len(p)) = p

\* the positions at which p occurs in s
Occurrences(s, p) ==
    {i \in 1..(Len(s) - Len(p) + 1) : SubSeq(s, i, i + Len(p) - 1) = p}

\* str::find: the first position of p in s, 0 when there is none
Find(s, p) ==
    LET occ == Occurrences(s, p)
    IN  IF occ = {} THEN 0 ELSE CHOOSE i \in occ : \A j \in occ : i <= j

\* str::rfind: the last position of p in s, 0 when there is none
RFind(s, p) ==
    LET occ == Occurrences(s, p)
    IN  IF occ = {} THEN 0 ELSE CHOOSE i \in occ : \A j \in occ : i >= j

\* str::contains
Contains(s, p) == Find(s, p) # 0

\* str::strip_prefix
StripPrefix(s, p) ==
    IF StartsWith(s, p) THEN Some(SubSeq(s, Len(p) + 1, Len(s))) ELSE None

\* str::split_once: Some((before, after)) around the first p, or None
SplitOnce(s, p) ==
    LET i == Find(s, p)
    IN  IF i = 0 THEN None
        ELSE Some(<<SubSeq(s, 1, i - 1), SubSeq(s, i + Len(p), Len(s))>>)

\* str::rsplit_once: Some((before, after)) around the last p, or None
RSplitOnce(s, p) ==
    LET i == RFind(s, p)
    IN  IF i = 0 THEN None
        ELSE Some(<<SubSeq(s, 1, i - 1), SubSeq(s, i + Len(p), Len(s))>>)

\* str::split: the pieces of s between the occurrences of p, left to right
RECURSIVE Split(_, _)
Split(s, p) ==
    LET i == Find(s, p)
    IN  IF i = 0 THEN <<s>>
        ELSE <<SubSeq(s, 1, i - 1)>> \o Split(SubSeq(s, i + Len(p), Len(s)), p)

\* str::replace(from, to), for a one-character pattern
Replace(s, from, to) == [i \in 1..Len(s) |-> IF s[i] = from THEN to ELSE s[i]]

\* str::split_whitespace: the maximal runs of non-whitespace characters
RECURSIVE SplitWhitespace(_)
SplitWhitespace(s) ==
    IF s = <<>> THEN <<>>
    ELSE IF IsWhitespace(Head(s)) THEN SplitWhitespace(Tail(s))
    ELSE LET stops == {i \in 1..Len(s) : IsWhitespace(s[i])}
             end == IF stops = {} THEN Len(s) + 1
                    ELSE CHOOSE i \in stops : \A j \in stops : i <= j
         IN  <<SubSeq(s, 1, end - 1)>> \o SplitWhitespace(SubSeq(s, end, Len(s)))

\* [&str]::join
RECURSIVE Join(_, _)
Join(parts, sep) ==
    IF parts = <<>> THEN <<>>
    ELSE IF Len(parts) = 1 THEN parts[1]
    ELSE parts[1] \o sep \o Join(Tail(parts), sep)

----------------------------------------------------------------------------
(* prettify and humanize.                                                  *)

\* humanize without the collapse of whitespace: the underscores replaced only
humanize_uncollapsed(input) == Replace(input, "_", " ")

humanize(input) == Join(SplitWhitespace(Replace(input, "_", " ")), SPACE)

prettify(input) ==
    LET parts == SplitOnce(input, FN_MARK)
    IN  IF IsSome(parts)
        THEN parts.some[1] \o SPACE \o humanize(parts.some[2])
        ELSE humanize(input)

----------------------------------------------------------------------------
(* Status, TestResult and parse_line.                                      *)

\* Result::Ok and Result::Err
Ok(v) == [ok |-> v]
Err(e) == [err |-> e]
IsOk(r) == "ok" \in DOMAIN r

\* the {status:?} of the error message: the token between double quotes
DebugQuoted(s) == <<"\"">> \o s \o <<"\"">>

UNHANDLED == <<"u", "n", "h", "a", "n", "d", "l", "e", "d", " ", "t", "e", "s",
               "t", " ", "s", "t", "a", "t", "u", "s", " ">>

\* from_str with the arms of "FAILED" and "ignored" exchanged
from_str_exchanged(status) ==
    IF status = OK THEN Ok("Pass")
    ELSE IF status = FAILED THEN Ok("Ignored")
    ELSE IF status = IGNORED THEN Ok("Fail")
    ELSE Err(UNHANDLED \o DebugQuoted(status))

\* impl FromStr for Status
from_str(status) ==
    IF status = OK THEN Ok("Pass")
    ELSE IF status = FAILED THEN Ok("Fail")
    ELSE IF status = IGNORED THEN Ok("Ignored")
    ELSE Err(UNHANDLED \o DebugQuoted(status))

\* a pop of every trailing "tests" or "test" instead of the last one
RECURSIVE PopWhileTestModule(_)
PopWhileTestModule(parts) ==
    IF parts # <<>> /\ (parts[Len(parts)] = TESTS \/ parts[Len(parts)] = TEST)
    THEN PopWhileTestModule(SubSeq(parts, 1, Len(parts) - 1))
    ELSE parts

\* Vec::pop_if, for the predicate of prettify_module
PopIfTestModule(parts) ==
    IF parts # <<>> /\ (parts[Len(parts)] = TESTS \/ parts[Len(parts)] = TEST)
    THEN SubSeq(parts, 1, Len(parts) - 1)
    ELSE parts

prettify_module(module) ==
    LET parts == PopIfTestModule(Split(module, PATH_SEP))
    IN  IF parts = <<>> THEN None ELSE Some(Join(parts, PATH_SEP))

TestResult(module, name, status) ==
    [module |-> module, name |-> name, status |-> status]

\* the same condition without the check of the documentation-test mark
SummaryOnly(l) == StartsWith(l, RESULT)

\* the condition under which parse_line gives up on a line that began with
\* "test ": the summary line, or the line of a documentation test
SummaryOrDocTest(l) == StartsWith(l, RESULT) \/ Contains(l, LINE_MARK)

parse_line(l) ==
    LET stripped == StripPrefix(l, TEST_PREFIX)
    IN  IF ~IsSome(stripped) THEN None
        ELSE IF SummaryOrDocTest(stripped.some) THEN None
        ELSE LET halves == SplitOnce(stripped.some, SEP)
             IN  IF ~IsSome(halves) THEN None
                 ELSE LET test == halves.some[1]
                          status == from_str(halves.some[2])
                          path == RSplitOnce(test, PATH_SEP)
                          module == IF IsSome(path)
                                    THEN prettify_module(path.some[1])
                                    ELSE None
                          name == IF IsSome(path) THEN path.some[2] ELSE test
                      IN  IF ~IsOk(status) THEN None
                          ELSE Some(TestResult(module, prettify(name), status.ok))

\* str::lines: the pieces ended by "\n", and a last piece that is not when it
\* is not empty; a piece ended by "\n" loses it, and then one "\r" before it
RECURSIVE Lines(_)
Lines(s) ==
    IF s = <<>> THEN <<>>
    ELSE LET i == Find(s, <<"\n">>)
         IN  IF i = 0 THEN <<s>>
             ELSE LET piece == SubSeq(s, 1, i - 1)
                      stripped ==
                          IF piece # <<>> /\ piece[Len(piece)] = "\r"
                          THEN SubSeq(piece, 1, Len(piece) - 1)
                          ELSE piece
                  IN  <<stripped>> \o Lines(SubSeq(s, i + 1, Len(s)))

\* a collect that puts each result before the ones already collected
RECURSIVE FilterMapReversed(_)
FilterMapReversed(ls) ==
    IF ls = <<>> THEN <<>>
    ELSE LET r == parse_line(Head(ls))
         IN  FilterMapReversed(Tail(ls))
             \o (IF IsSome(r) THEN <<r.some>> ELSE <<>>)

\* Iterator::filter_map(parse_line).collect()
RECURSIVE FilterMapParseLine(_)
FilterMapParseLine(ls) ==
    IF ls = <<>> THEN <<>>
    ELSE LET r == parse_line(Head(ls))
         IN  (IF IsSome(r) THEN <<r.some>> ELSE <<>>)
             \o FilterMapParseLine(Tail(ls))

parse_test_results(test_output) == FilterMapParseLine(Lines(test_output))

----------------------------------------------------------------------------
(* Display of Status and TestResult.                                       *)

CHECK_MARK == <<"U+2714">>
CROSS == <<"x">>
QUESTION == <<"?">>

\* the escape sequences of the `colored` crate
BRIGHT_GREEN == "ESC[92m"
BRIGHT_RED == "ESC[91m"
BRIGHT_YELLOW == "ESC[93m"
BRIGHT_BLUE == "ESC[94m"
RESET == "ESC[0m"

\* Colorize: the string between the escape sequence of the colour and the
\* reset when colours are on, the string alone when they are off
Colorize(s, sgr, on) == IF on THEN <<sgr>> \o s \o <<RESET>> ELSE s

\* Display for Status with the glyph of Ignored given to Fail too
DisplayStatusSameGlyph(status, on) ==
    CASE status = "Pass" -> Colorize(CHECK_MARK, BRIGHT_GREEN, on)
      [] status = "Fail" -> Colorize(QUESTION, BRIGHT_RED, on)
      [] status = "Ignored" -> Colorize(QUESTION, BRIGHT_YELLOW, on)

\* impl Display for Status
DisplayStatus(status, on) ==
    CASE status = "Pass" -> Colorize(CHECK_MARK, BRIGHT_GREEN, on)
      [] status = "Fail" -> Colorize(CROSS, BRIGHT_RED, on)
      [] status = "Ignored" -> Colorize(QUESTION, BRIGHT_YELLOW, on)

\* impl Display for TestResult
DisplayTestResult(r, on) ==
    IF IsSome(r.module)
    THEN DisplayStatus(r.status, on) \o SPACE
         \o Colorize(r.module.some, BRIGHT_BLUE, on) \o DASH \o r.name
    ELSE DisplayStatus(r.status, on) \o SPACE \o r.name

----------------------------------------------------------------------------
(* main.                                                                   *)

SUCCESS == 0
PANIC == 101

\* the closures of main, applied to one line of the output: None when the
\* line is filtered out, else the line main prints
main_line(l) ==
    LET stripped == StripPrefix(l, TEST_PREFIX)
    IN  IF ~IsSome(stripped) THEN None
        ELSE IF StartsWith(stripped.some, RESULT) THEN None
        ELSE LET inner == StripPrefix(stripped.some, TESTS_PREFIX)
                 kept == IF IsSome(inner) THEN inner.some ELSE stripped.some
             IN  Some(Replace(kept, "_", " "))

\* the Vec<String> main collects from the output
RECURSIVE main_results(_)
main_results(ls) ==
    IF ls = <<>> THEN <<>>
    ELSE LET r == main_line(Head(ls))
         IN  (IF IsSome(r) THEN <<r.some>> ELSE <<>>) \o main_results(Tail(ls))

----------------------------------------------------------------------------
(* Inputs.                                                                 *)

\* the concatenation of a sequence of strings
RECURSIVE Flatten(_)
Flatten(ss) == IF ss = <<>> THEN <<>> ELSE Head(ss) \o Flatten(Tail(ss))

\* all sequences of at most n elements of S
SeqsUpTo(S, n) == UNION {[1..k -> S] : k \in 0..n}

\* the pieces identifiers are built from
IdTokens == {<<"a">>, <<"_">>, <<" ">>, <<"\t">>, <<"f", "n">>, FN_MARK}

Identifiers == {Flatten(ts) : ts \in SeqsUpTo(IdTokens, MaxIdTokens)}

\* what may stand before the body of a line
LinePrefixes == {TEST_PREFIX, <<>>, TEST}

\* the pieces the body of a line is built from
BodyTokens == {RESULT, LINE_MARK, <<" ">>, PATH_SEP, <<"a">>, <<"_">>, TESTS, SEP}

\* what may stand between the body and the status token
LineSeparators == {SEP, <<" ", ".", ".", " ">>}

BENCH == <<"b", "e", "n", "c", "h">>

\* the status tokens: the three of the runner, and two that are not
StatusTokens == {OK, FAILED, IGNORED, BENCH, <<>>}

LineInputs ==
    {pre \o Flatten(body) \o sep \o tok :
        pre \in LinePrefixes, body \in SeqsUpTo(BodyTokens, MaxBodyTokens),
        sep \in LineSeparators, tok \in StatusTokens}

\* the segments of a test path
Segments == {<<>>, <<"a">>, TESTS, TEST, <<"t", "e", "s", "t", "_", "f", "o", "o">>,
             <<"T", "e", "s", "t", "s">>}

\* the test paths: up to MaxSegs module segments, then the test name
TestPaths ==
    {Join(segs, PATH_SEP) :
        segs \in SeqsUpTo(Segments, MaxSegs + 1) \ {<<>>}}

PathInputs ==
    {TEST_PREFIX \o path \o SEP \o tok :
        path \in TestPaths, tok \in {OK, FAILED, IGNORED}}

\* the lines a captured output is made of
OutputLines ==
    {TEST_PREFIX \o <<"a">> \o SEP \o OK,
     TEST_PREFIX \o <<"m">> \o PATH_SEP \o <<"b", "_", "c">> \o SEP \o FAILED,
     TEST_PREFIX \o TESTS_PREFIX \o <<"d">> \o SEP \o IGNORED,
     TEST_PREFIX \o <<"e">> \o SEP \o BENCH,
     TEST_PREFIX \o RESULT \o <<":">> \o SEP \o OK,
     <<" ", "F", "i", "n", "i", "s", "h", "e", "d">>,
     <<>>}

\* the line endings of an output
Newlines == {<<"\n">>, <<"\r", "\n">>}

\* the captured outputs: up to MaxLines lines, each but the last ended by a
\* line ending, the last ended by one or not
Outputs ==
    {Join(ls, nl) \o (IF ended THEN nl ELSE <<>>) :
        ls \in SeqsUpTo(OutputLines, MaxLines), nl \in Newlines, ended \in BOOLEAN}

----------------------------------------------------------------------------
(* Specification of prettify: an identifier is prettified, and the output   *)
(* is prettified again.                                                     *)

Idle == <<>>

InitPrettify ==
    /\ pc = "start"
    /\ ident \in Identifiers
    /\ pretty = Idle /\ again = Idle
    /\ line = Idle /\ result = None
    /\ text = Idle /\ results = <<>>
    /\ colour = FALSE /\ rendered = <<>> /\ printed = <<>> /\ exit_code = -1

Prettify ==
    /\ pc = "start"
    /\ pretty' = prettify(ident)
    /\ pc' = "prettified"
    /\ UNCHANGED <<ident, again, line, result, text, results, colour,
                   rendered, printed, exit_code>>

PrettifyAgain ==
    /\ pc = "prettified"
    /\ again' = prettify(pretty)
    /\ pc' = "prettified twice"
    /\ UNCHANGED <<ident, pretty, line, result, text, results, colour,
                   rendered, printed, exit_code>>

NextPrettify == Prettify \/ PrettifyAgain

SpecPrettify == InitPrettify /\ [][NextPrettify]_vars

----------------------------------------------------------------------------
(* Specification of parse_line: a line is given to parse_line and, as a     *)
(* captured output of one line, to parse_test_results.                      *)

InitLineFrom(inputs) ==
    /\ pc = "start"
    /\ line \in inputs
    /\ text = line
    /\ result = None /\ results = <<>>
    /\ ident = Idle /\ pretty = Idle /\ again = Idle
    /\ colour = FALSE /\ rendered = <<>> /\ printed = <<>> /\ exit_code = -1

ParseLine ==
    /\ pc = "start"
    /\ result' = parse_line(line)
    /\ pc' = "parsed"
    /\ UNCHANGED <<ident, pretty, again, line, text, results, colour,
                   rendered, printed, exit_code>>

ParseTestResults ==
    /\ pc \in {"start", "parsed"}
    /\ results' = parse_test_results(text)
    /\ pc' = "collected"
    /\ UNCHANGED <<ident, pretty, again, line, result, text, colour,
                   rendered, printed, exit_code>>

NextLine == ParseLine \/ ParseTestResults

\* lines of every shape
InitLine == InitLineFrom(LineInputs)
SpecLine == InitLine /\ [][NextLine]_vars

\* well-formed result lines over test paths of every shape
InitPath == InitLineFrom(PathInputs)
SpecPath == InitPath /\ [][NextLine]_vars

----------------------------------------------------------------------------
(* Specification of parse_test_results: a captured output is parsed and     *)
(* each result is displayed.                                                *)

InitResults ==
    /\ pc = "start"
    /\ text \in Outputs
    /\ colour \in BOOLEAN
    /\ results = <<>> /\ rendered = <<>>
    /\ line = Idle /\ result = None
    /\ ident = Idle /\ pretty = Idle /\ again = Idle
    /\ printed = <<>> /\ exit_code = -1

Display ==
    /\ pc = "collected"
    /\ rendered' = [k \in 1..Len(results) |-> DisplayTestResult(results[k], colour)]
    /\ pc' = "rendered"
    /\ UNCHANGED <<ident, pretty, again, line, result, text, results, colour,
                   printed, exit_code>>

NextResults == ParseTestResults \/ Display

SpecResults == InitResults /\ [][NextResults]_vars

----------------------------------------------------------------------------
(* Specification of main: cargo runs and its output is printed, or cargo    *)
(* cannot be run and main panics.                                           *)

InitMain ==
    /\ pc = "start"
    /\ text \in Outputs
    /\ printed = <<>> /\ exit_code = -1
    /\ colour = FALSE /\ results = <<>> /\ rendered = <<>>
    /\ line = Idle /\ result = None
    /\ ident = Idle /\ pretty = Idle /\ again = Idle

\* main, when cargo ran: every collected line is printed, main returns
Main ==
    /\ pc = "start"
    /\ printed' = main_results(Lines(text))
    /\ exit_code' = SUCCESS
    /\ pc' = "exited"
    /\ UNCHANGED <<ident, pretty, again, line, result, text, results, colour,
                   rendered>>

\* main, when cargo could not be run: expect panics
MainPanics ==
    /\ pc = "start"
    /\ exit_code' = PANIC
    /\ pc' = "panicked"
    /\ UNCHANGED <<ident, pretty, again, line, result, text, results, colour,
                   rendered, printed>>

NextMain == Main \/ MainPanics

SpecMain == InitMain /\ [][NextMain]_vars

----------------------------------------------------------------------------
(* Claims about prettify.                                                   *)

\* underscore or whitespace: what humanizing turns into a word boundary
IsBlank(c) == c = "_" \/ IsWhitespace(c)

\* the elements of s at the positions of keep from i on, each blank as " "
RECURSIVE Pick(_, _, _)
Pick(s, i, keep) ==
    IF i > Len(s) THEN <<>>
    ELSE (IF i \in keep THEN <<IF IsBlank(s[i]) THEN " " ELSE s[i]>> ELSE <<>>)
         \o Pick(s, i + 1, keep)

\* s with every underscore a space, every run of whitespace one space, and
\* both ends trimmed: a blank is kept exactly when a non-blank precedes it
\* somewhere and a non-blank follows it immediately
Humanized(s) ==
    LET keep == {i \in 1..Len(s) :
                    \/ ~IsBlank(s[i])
                    \/ /\ i < Len(s) /\ ~IsBlank(s[i + 1])
                       /\ \E j \in 1..(i - 1) : ~IsBlank(s[j])}
    IN  Pick(s, 1, keep)

\* whether "_fn_" stands at position i of s
MarkAt(s, i) ==
    /\ i >= 1 /\ i + 3 <= Len(s)
    /\ s[i] = "_" /\ s[i + 1] = "f" /\ s[i + 2] = "n" /\ s[i + 3] = "_"

HasMark(s) == \E i \in 1..Len(s) : MarkAt(s, i)

\* C5: prettify(x) is the humanized x when x holds no "_fn_"; otherwise it
\* is the text before the first "_fn_", unchanged, then one space, then the
\* humanized text after that first "_fn_".
C5_PrettifyShape ==
    pc # "start" =>
        IF ~HasMark(ident)
        THEN pretty = Humanized(ident)
        ELSE \E i \in 1..Len(ident) :
                /\ MarkAt(ident, i)
                /\ \A j \in 1..(i - 1) : ~MarkAt(ident, j)
                /\ pretty = SubSeq(ident, 1, i - 1) \o <<" ">>
                            \o Humanized(SubSeq(ident, i + 4, Len(ident)))

\* an identifier with two "_fn_" and underscores before the first was prettified
C5_Witness ==
    /\ pc = "prettified"
    /\ Cardinality({i \in 1..Len(ident) : MarkAt(ident, i)}) >= 2
    /\ pretty # <<>> /\ Head(pretty) = "_"
    /\ Len(pretty) < Len(ident) - 4

\* C8: when prettify(x) holds no underscore, prettifying it again returns it
\* unchanged.
C8_RefeedUnchanged ==
    (pc = "prettified twice" /\ ~Contains(pretty, <<"_">>)) => again = pretty

----------------------------------------------------------------------------
(* Claims about parse_line.                                                 *)

\* whether p stands at position i of s
OccursAt(s, p, i) ==
    /\ i >= 1 /\ i + Len(p) - 1 <= Len(s)
    /\ \A k \in 1..Len(p) : s[i + k - 1] = p[k]

Occurs(s, p) == \E i \in 1..Len(s) : OccursAt(s, p, i)

\* the first position of p in s, which holds p
FirstAt(s, p) ==
    CHOOSE i \in 1..Len(s) :
        OccursAt(s, p, i) /\ \A j \in 1..(i - 1) : ~OccursAt(s, p, j)

HasTestPrefix(l) == OccursAt(l, TEST_PREFIX, 1)
\* the line after "test "
Rest(l) == SubSeq(l, Len(TEST_PREFIX) + 1, Len(l))
\* the text before and after the first " ... "
BeforeSep(r) == SubSeq(r, 1, FirstAt(r, SEP) - 1)
AfterSep(r) == SubSeq(r, FirstAt(r, SEP) + Len(SEP), Len(r))

SPACED_LINE_MARK == <<" ", "(", "l", "i", "n", "e", " ">>

\* a line that has the shape of a result line, given the mark of a
\* documentation test
HasResultShape(l, mark) ==
    /\ HasTestPrefix(l)
    /\ ~OccursAt(Rest(l), RESULT, 1)
    /\ ~Occurs(Rest(l), mark)
    /\ Occurs(Rest(l), SEP)

KnownTokens == {OK, FAILED, IGNORED}

\* C1: a line of result shape whose status token is none of "ok", "FAILED",
\* "ignored" ends parse_line in an error that names the token.
C1_UnknownTokenIsAnError ==
    (/\ pc = "parsed"
     /\ HasResultShape(line, SPACED_LINE_MARK)
     /\ AfterSep(Rest(line)) \notin KnownTokens)
    => /\ "err" \in DOMAIN result
       /\ Occurs(result.err, AfterSep(Rest(line)))

\* C2: parse_line returns None, and parse_test_results nothing, for a line
\* that does not begin with "test ", or whose rest begins with "result",
\* holds " (line " or holds no " ... ".
C2_Rejected(l) ==
    \/ ~HasTestPrefix(l)
    \/ OccursAt(Rest(l), RESULT, 1)
    \/ Occurs(Rest(l), SPACED_LINE_MARK)
    \/ ~Occurs(Rest(l), SEP)

C2_RejectedLinesGiveNothing ==
    C2_Rejected(line) =>
        /\ pc = "parsed" => result = None
        /\ pc = "collected" => results = <<>>

\* a line rejected only for its " (line ": it has the prefix, the separator
\* and a known token
C2_Witness ==
    /\ pc = "parsed"
    /\ HasTestPrefix(line)
    /\ ~OccursAt(Rest(line), RESULT, 1)
    /\ Occurs(Rest(line), SPACED_LINE_MARK)
    /\ Occurs(Rest(line), SEP)
    /\ AfterSep(Rest(line)) = OK
    /\ result = None

\* the status a known token stands for
StatusOf(tok) ==
    CASE tok = OK -> "Pass" [] tok = FAILED -> "Fail" [] tok = IGNORED -> "Ignored"

\* the segments of a test path
SegmentsOf(path) == Split(path, PATH_SEP)

\* the module segments of a test path, less one trailing "tests" or "test"
ModuleSegments(path) ==
    LET segs == SegmentsOf(path)
        cand == SubSeq(segs, 1, Len(segs) - 1)
    IN  IF cand # <<>> /\ cand[Len(cand)] \in {TESTS, TEST}
        THEN SubSeq(cand, 1, Len(cand) - 1)
        ELSE cand

\* the result a line of result shape with a known token gives
ExpectedResult(l) ==
    LET path == BeforeSep(Rest(l))
        segs == SegmentsOf(path)
        mods == ModuleSegments(path)
    IN  [module |-> IF mods = <<>> THEN None ELSE Some(Join(mods, PATH_SEP)),
         name |-> prettify(segs[Len(segs)]),
         status |-> StatusOf(AfterSep(Rest(l)))]

C3_Accepted(mark) ==
    (/\ HasResultShape(line, mark)
     /\ AfterSep(Rest(line)) \in KnownTokens)
    => /\ pc = "parsed" => result = Some(ExpectedResult(line))
       /\ pc = "collected" => results = <<ExpectedResult(line)>>

\* C3 as stated: a line that begins with "test ", whose rest does not begin
\* with "result", holds no " (line " and holds " ... " followed by exactly
\* "ok", "FAILED" or "ignored", gives one TestResult.
C3_AcceptedUnlessSpacedMark == C3_Accepted(SPACED_LINE_MARK)

\* C3 as amended: the same for a line whose rest holds no "(line ", with or
\* without a space before it.
C3_AcceptedUnlessMark == C3_Accepted(LINE_MARK)

\* a line with a module path and a second " ... " in its token was refused,
\* and one with the token "ignored" gave a result
C3_Witness ==
    /\ pc = "collected"
    /\ HasResultShape(line, LINE_MARK)
    /\ AfterSep(Rest(line)) = IGNORED
    /\ Occurs(BeforeSep(Rest(line)), PATH_SEP)
    /\ Len(results) = 1 /\ results[1].status = "Ignored"

\* C6: the name of a TestResult is never empty and never holds "::".
C6_NameNeverEmpty ==
    (pc = "parsed" /\ IsSome(result)) =>
        /\ result.some.name # <<>>
        /\ ~Occurs(result.some.name, PATH_SEP)

----------------------------------------------------------------------------
(* Claims about the module path.                                            *)

----------------------------------------------------------------------------
(* Claims about parse_test_results, Display and main.                       *)

\* the text of a sequence of lines, each ended by "\n"
RECURSIVE TextOf(_)
TextOf(ls) == IF ls = <<>> THEN <<>> ELSE Head(ls) \o <<"\n">> \o TextOf(Tail(ls))

\* whether a line gives a result: it has the shape of a result line and a
\* known token
GivesResult(l) ==
    HasResultShape(l, LINE_MARK) /\ AfterSep(Rest(l)) \in KnownTokens

\* C7: the results are those of the lines that give one, in the order of the
\* lines, each once; they are no more than the lines; and the results of a
\* text cut in two between lines are those of the first part followed by
\* those of the second.
C7_ResultsInLineOrder ==
    pc \in {"collected", "rendered"} =>
        LET ls == Lines(text)
            n == Len(results)
        IN  /\ n <= Len(ls)
            /\ \E f \in [1..n -> 1..Len(ls)] :
                  /\ \A j, k \in 1..n : j < k => f[j] < f[k]
                  /\ \A k \in 1..n :
                        GivesResult(ls[f[k]]) /\ results[k] = ExpectedResult(ls[f[k]])
                  /\ \A i \in 1..Len(ls) :
                        GivesResult(ls[i]) => \E k \in 1..n : f[k] = i
            /\ \A k \in 0..Len(ls) :
                  results = parse_test_results(TextOf(SubSeq(ls, 1, k)))
                            \o parse_test_results(TextOf(SubSeq(ls, k + 1, Len(ls))))

\* an output of three lines, the first of which gives no result and the
\* other two different results
C7_Witness ==
    /\ pc = "collected"
    /\ Len(Lines(text)) = 3
    /\ ~HasTestPrefix(Lines(text)[1])
    /\ Len(results) = 2
    /\ results[1].status = "Fail" /\ results[2].status = "Pass"

ESCAPES == {BRIGHT_GREEN, BRIGHT_RED, BRIGHT_YELLOW, BRIGHT_BLUE, RESET}

\* a rendering without its escape sequences
StripColour(s) == SelectSeq(s, LAMBDA c : c \notin ESCAPES)

\* the glyph the claim gives each status
GlyphOf(status) ==
    CASE status = "Pass" -> "U+2714" [] status = "Fail" -> "x"
      [] status = "Ignored" -> "?"

\* C9: without its colour codes a rendering is the glyph of the status, a
\* space, the module and " - " (an en dash) when there is a module, and the
\* name; renderings of results of different status begin differently.
C9_Rendering ==
    pc = "rendered" =>
        /\ Len(rendered) = Len(results)
        /\ \A k \in 1..Len(results) :
              StripColour(rendered[k]) =
                  <<GlyphOf(results[k].status), " ">>
                  \o (IF IsSome(results[k].module)
                      THEN results[k].module.some \o <<" ", "U+2013", " ">>
                      ELSE <<>>)
                  \o results[k].name
        /\ \A j, k \in 1..Len(results) :
              results[j].status # results[k].status
              => Head(StripColour(rendered[j])) # Head(StripColour(rendered[k]))

\* with colours on, a failed test in a module and an ignored test outside
\* any module were rendered
C9_Witness ==
    /\ pc = "rendered"
    /\ colour
    /\ \E j, k \in 1..Len(results) :
          /\ results[j].status = "Fail" /\ IsSome(results[j].module)
          /\ results[k].status = "Ignored" /\ ~IsSome(results[k].module)
          /\ Head(rendered[j]) = BRIGHT_RED

\* C10: main ends with a failure status when a result line of the output
\* has the token "FAILED", and with success when none has.
C10_ExitStatusTellsFailure ==
    pc = "exited" =>
        LET ls == Lines(text)
            failed == \E i \in 1..Len(ls) :
                         GivesResult(ls[i]) /\ AfterSep(Rest(ls[i])) = FAILED
        IN  (exit_code # 0) <=> failed

====
